---- MODULE Spec2Model ----
(***************************************************************************)
(* Review Search & Sentiment Trend Analyzer (app/main.py,                  *)
(* scripts/load_reviews.py): the text normaliser, the sentiment            *)
(* classifier, the filter and query builders, and the request handlers     *)
(* over the Elasticsearch index, as a state machine.                       *)
(*                                                                         *)
(* Texts are sequences of one-character strings, so that normalisation is  *)
(* computed character by character as the code does.  Optional[T] values   *)
(* are sequences of length at most one: None is <<>>, a value v is <<v>>.  *)
(***************************************************************************)
EXTENDS Integers, Sequences, FiniteSets, TLC

VARIABLES indexExists, store, searchable, pc, local, resp, nreq, deleted,
          arg, ret

vars == <<indexExists, store, searchable, pc, local, resp, nreq, deleted,
          arg, ret>>

None == <<>>
Some(v) == <<v>>

(***************************************************************************)
(* Text normalisation: clean_text                                          *)
(***************************************************************************)

\* str.split() with no argument splits on whitespace.
IsSpace(c) == c \in {" ", "\t", "\n", "\f", "\r"}

\* The character class of a named reference in html.unescape's pattern,
\* [^\t\n\f <&#;]: note that ">" belongs to it.
NameChar(c) == c \notin {"\t", "\n", "\f", " ", "<", "&", "#", ";"}

\* The named references of html.entities.html5 that can be written with the
\* letters of the modelled texts: amp, lt and gt, with and without their
\* semicolon.  "#" is not a modelled character, so no numeric reference occurs.
html5 ==
    (<<"a", "m", "p">> :> <<"&">>) @@ (<<"a", "m", "p", ";">> :> <<"&">>) @@
    (<<"l", "t">> :> <<"<">>) @@ (<<"l", "t", ";">> :> <<"<">>) @@
    (<<"g", "t">> :> <<">">>) @@ (<<"g", "t", ";">> :> <<">">>)

\* The greedy run {1,32} of name characters starting at s[i].
RECURSIVE NameRun(_, _, _)
NameRun(s, i, n) ==
    IF i > Len(s) \/ n = 32 \/ ~NameChar(s[i]) THEN n ELSE NameRun(s, i + 1, n + 1)

\* html._replace_charref, named branch: the reference itself, else the longest
\* proper prefix of at least two characters that is a reference, else the text
\* left as it was.
RECURSIVE longest_prefix(_, _)
longest_prefix(s, x) ==
    IF x < 2 THEN <<"&">> \o s
    ELSE IF SubSeq(s, 1, x) \in DOMAIN html5
         THEN html5[SubSeq(s, 1, x)] \o SubSeq(s, x + 1, Len(s))
         ELSE longest_prefix(s, x - 1)

replace_charref(s) ==
    IF s \in DOMAIN html5 THEN html5[s] ELSE longest_prefix(s, Len(s) - 1)

\* html.unescape: one left-to-right pass of re.sub over &name;? ; what a
\* replacement produces is not scanned again.
RECURSIVE unescape_from(_, _)
unescape_from(s, i) ==
    IF i > Len(s) THEN <<>>
    ELSE IF s[i] = "&" /\ i < Len(s) /\ NameChar(s[i + 1])
         THEN LET n == NameRun(s, i + 1, 0)
                  semi == i + n + 1 <= Len(s) /\ s[i + n + 1] = ";"
                  e == i + n + (IF semi THEN 1 ELSE 0)
              IN  replace_charref(SubSeq(s, i + 1, e)) \o unescape_from(s, e + 1)
         ELSE <<s[i]>> \o unescape_from(s, i + 1)

unescape(s) == unescape_from(s, 1)

\* The index of the first ">" at or after j, 0 when there is none.
RECURSIVE FirstGt(_, _)
FirstGt(s, j) ==
    IF j > Len(s) THEN 0 ELSE IF s[j] = ">" THEN j ELSE FirstGt(s, j + 1)

\* TAG_RE.sub(" ", s) with TAG_RE = <[^>]+> : a "<", at least one character
\* that is not ">", and the first ">" after them, replaced by one space.
RECURSIVE tag_sub_from(_, _)
tag_sub_from(s, i) ==
    IF i > Len(s) THEN <<>>
    ELSE IF s[i] = "<" /\ i < Len(s) /\ s[i + 1] # ">" /\ FirstGt(s, i + 1) # 0
         THEN <<" ">> \o tag_sub_from(s, FirstGt(s, i + 1) + 1)
         ELSE <<s[i]>> \o tag_sub_from(s, i + 1)

tag_sub(s) == tag_sub_from(s, 1)

\* s.split(): the maximal runs of non-whitespace characters.
RECURSIVE split_from(_, _, _)
split_from(s, i, cur) ==
    IF i > Len(s) THEN (IF cur = <<>> THEN <<>> ELSE <<cur>>)
    ELSE IF IsSpace(s[i])
         THEN (IF cur = <<>> THEN <<>> ELSE <<cur>>) \o split_from(s, i + 1, <<>>)
         ELSE split_from(s, i + 1, Append(cur, s[i]))

split(s) == split_from(s, 1, <<>>)

\* " ".join(ws)
RECURSIVE join(_)
join(ws) ==
    IF ws = <<>> THEN <<>>
    ELSE IF Len(ws) = 1 THEN ws[1]
         ELSE ws[1] \o <<" ">> \o join(Tail(ws))

\* str.strip(): leading and trailing whitespace removed.
RECURSIVE lstrip(_)
lstrip(s) ==
    IF s # <<>> /\ IsSpace(s[1]) THEN lstrip(Tail(s)) ELSE s

RECURSIVE rstrip(_)
rstrip(s) ==
    IF s # <<>> /\ IsSpace(s[Len(s)]) THEN rstrip(SubSeq(s, 1, Len(s) - 1)) ELSE s

strip(s) == rstrip(lstrip(s))

clean_text(s) == strip(join(split(tag_sub(unescape(s)))))

(***************************************************************************)
(* Sentiment classification: compute_sentiment                             *)
(***************************************************************************)

\* The lexicon scorer is an external capability, deterministic for a fixed
\* text.  It is modelled by a small word lexicon; scores are in hundredths
\* (44 stands for 0.44), summed over the words and kept within [-1.0, 1.0].
Lexicon(w) ==
    CASE w = <<"g", "o", "o", "d">> -> 44
      [] w = <<"b", "a", "d">> -> -54
      [] w = <<"f", "i", "n", "e">> -> 5
      [] w = <<"m", "e", "h">> -> -5
      [] OTHER -> 0

RECURSIVE Valence(_)
Valence(ws) == IF ws = <<>> THEN 0 ELSE Lexicon(Head(ws)) + Valence(Tail(ws))

polarity_scores(text) ==
    LET v == Valence(split(text))
    IN  [compound |-> IF v > 100 THEN 100 ELSE IF v < -100 THEN -100 ELSE v]

\* compute_sentiment with the thresholds exclusive.
sentiment_of_score_exclusive(score) ==
    IF score > 5 THEN [label |-> "positive", score |-> score]
    ELSE IF score < -5 THEN [label |-> "negative", score |-> score]
         ELSE [label |-> "neutral", score |-> score]

\* The thresholds 0.05 and -0.05, inclusive, in hundredths.
sentiment_of_score(score) ==
    IF score >= 5 THEN [label |-> "positive", score |-> score]
    ELSE IF score <= -5 THEN [label |-> "negative", score |-> score]
         ELSE [label |-> "neutral", score |-> score]

compute_sentiment(text) == sentiment_of_score(polarity_scores(text).compound)

\* scripts/load_reviews.py: sentiment_label, the loader's copy of the
\* classification, and its thresholds.
sentiment_label_of_score(score) ==
    IF score >= 5 THEN [label |-> "positive", score |-> score]
    ELSE IF score <= -5 THEN [label |-> "negative", score |-> score]
         ELSE [label |-> "neutral", score |-> score]

sentiment_label(text) == sentiment_label_of_score(polarity_scores(text).compound)

\* f"{title} {text}".strip()
title_text(title, text) == strip(title \o <<" ">> \o text)

(***************************************************************************)
(* Timestamps                                                              *)
(***************************************************************************)

\* A datetime is a record of its date, its time and its UTC offset ("" when
\* naive); its ISO string is the tuple of the string's parts.
isoformat(dt) == <<dt.date, "T", dt.time, dt.tz>>

\* datetime.fromisoformat(s.replace("Z", "+00:00"))
fromisoformat(s) ==
    [date |-> s[1], time |-> s[3], tz |-> IF s[4] = "Z" THEN "+00:00" ELSE s[4]]

(***************************************************************************)
(* Query construction: build_filters, build_query, build_sort              *)
(***************************************************************************)

\* Python truthiness of an Optional[str]: None and "" are false.
Truthy(o) == o # None /\ o[1] # ""

\* The dict rng of a range clause: it has the key "gte" iff lo is given and
\* the key "lte" iff hi is given.
range_dict(lo, hi) ==
    [k \in (IF lo # None THEN {"gte"} ELSE {}) \cup (IF hi # None THEN {"lte"} ELSE {}) |->
        IF k = "gte" THEN lo[1] ELSE hi[1]]

Iso(o) == IF o = None THEN None ELSE Some(isoformat(o[1]))

\* build_filters with the rating range appended before the term clauses.
build_filters_range_first(product_id, sentiment, min_rating, max_rating, date_from, date_to) ==
    (IF min_rating # None \/ max_rating # None
        THEN <<[range |-> [rating |-> range_dict(min_rating, max_rating)]]>>
        ELSE <<>>)
    \o (IF Truthy(product_id)
        THEN <<[term |-> [product_id |-> product_id[1]]]>> ELSE <<>>)
    \o (IF Truthy(sentiment)
        THEN <<[term |-> [sentiment |-> sentiment[1]]]>> ELSE <<>>)
    \o (IF date_from # None \/ date_to # None
        THEN <<[range |-> [created_at |-> range_dict(Iso(date_from), Iso(date_to))]]>>
        ELSE <<>>)

build_filters(product_id, sentiment, min_rating, max_rating, date_from, date_to) ==
    (IF Truthy(product_id)
        THEN <<[term |-> [product_id |-> product_id[1]]]>> ELSE <<>>)
    \o (IF Truthy(sentiment)
        THEN <<[term |-> [sentiment |-> sentiment[1]]]>> ELSE <<>>)
    \o (IF min_rating # None \/ max_rating # None
        THEN <<[range |-> [rating |-> range_dict(min_rating, max_rating)]]>>
        ELSE <<>>)
    \o (IF date_from # None \/ date_to # None
        THEN <<[range |-> [created_at |-> range_dict(Iso(date_from), Iso(date_to))]]>>
        ELSE <<>>)

MultiMatchFields == <<"review_title^2", "review_text", "product_name^1.5">>

\* build_query testing the query text without stripping it.
build_query_no_strip(q, filters) ==
    IF q # None /\ q[1] # <<>>
    THEN [bool |->
            [must |-> <<[multi_match |->
                           [query |-> q[1],
                            fields |-> MultiMatchFields,
                            fuzziness |-> "AUTO",
                            operator |-> "and"]]>>,
             filter |-> filters]]
    ELSE [bool |-> [must |-> <<[match_all |-> <<>>]>>, filter |-> filters]]

build_query(q, filters) ==
    IF q # None /\ q[1] # <<>> /\ strip(q[1]) # <<>>
    THEN [bool |->
            [must |-> <<[multi_match |->
                           [query |-> q[1],
                            fields |-> MultiMatchFields,
                            fuzziness |-> "AUTO",
                            operator |-> "and"]]>>,
             filter |-> filters]]
    ELSE [bool |-> [must |-> <<[match_all |-> <<>>]>>, filter |-> filters]]

build_sort(sort) ==
    CASE sort = "newest" ->
            Some(<<[created_at |-> [order |-> "desc"]], [_score |-> [order |-> "desc"]]>>)
      [] sort = "oldest" ->
            Some(<<[created_at |-> [order |-> "asc"]], [_score |-> [order |-> "desc"]]>>)
      [] sort = "rating_desc" ->
            Some(<<[rating |-> [order |-> "desc"]], [_score |-> [order |-> "desc"]]>>)
      [] sort = "rating_asc" ->
            Some(<<[rating |-> [order |-> "asc"]], [_score |-> [order |-> "desc"]]>>)
      [] OTHER -> None

(***************************************************************************)
(* Request and document shapes                                             *)
(***************************************************************************)

\* Two concurrent request handlers and two review ids.
Procs == {"h1", "h2"}
Ids == {"r1", "r2"}

\* Bound of the model: the requests taken in a run.
MaxRequests == 2

\* chunk_size of helpers.bulk, 500 in the code, scaled down; a submission of
\* up to MaxBulk reviews then spans two batches.
ChunkSize == 2
MaxBulk == ChunkSize + 1

D1 == [date |-> "2024-01-05", time |-> "10:00:00", tz |-> "+00:00"]
D2 == [date |-> "2024-03-09", time |-> "08:30:00", tz |-> ""]
D3 == [date |-> "2024-02-01", time |-> "00:00:00", tz |-> "+00:00"]

\* JSON bodies of POST /reviews and POST /reviews/bulk.  A body may carry
\* sentiment fields of the caller's own; ReviewIn declares none.
\* BodyA: title "<b>good</b>", text "bad &amp; good".
BodyA(id) ==
    [review_id |-> id, product_id |-> "p1", product_name |-> "n1", rating |-> 5,
     review_title |-> Some(<<"<", "b", ">", "g", "o", "o", "d", "<", "/", "b", ">">>),
     review_text |-> <<"b", "a", "d", " ", "&", "a", "m", "p", ";", " ", "g", "o", "o", "d">>,
     created_at |-> D1,
     sentiment |-> Some("positive"), sentiment_score |-> Some(99)]

\* BodyB: title null, text " fine ".
BodyB(id) ==
    [review_id |-> id, product_id |-> "p2", product_name |-> "n2", rating |-> 1,
     review_title |-> None,
     review_text |-> <<" ", "f", "i", "n", "e", " ">>,
     created_at |-> D2,
     sentiment |-> None, sentiment_score |-> None]

ReviewBodies == {BodyA(id) : id \in Ids} \cup {BodyB(id) : id \in Ids}

\* class ReviewIn: the declared fields of a body.
ReviewIn(b) ==
    [review_id |-> b.review_id, product_id |-> b.product_id,
     product_name |-> b.product_name, rating |-> b.rating,
     review_title |-> b.review_title, review_text |-> b.review_text,
     created_at |-> b.created_at]

PatchFields ==
    {"product_id", "product_name", "rating", "review_title", "review_text", "created_at"}

\* The value a PUT body gives a field it supplies: title "meh<br>", text "good".
PatchValue ==
    [product_id |-> "p3", product_name |-> "n3", rating |-> 3,
     review_title |-> <<"m", "e", "h", "<", "b", "r", ">">>,
     review_text |-> <<"g", "o", "o", "d">>,
     created_at |-> D3]

\* JSON bodies of PUT /reviews/{id}: the fields of m supplied, the others
\* omitted, and sentiment fields of the caller's own.
PatchBody(m) ==
    [product_id |-> IF "product_id" \in m THEN Some(PatchValue.product_id) ELSE None,
     product_name |-> IF "product_name" \in m THEN Some(PatchValue.product_name) ELSE None,
     rating |-> IF "rating" \in m THEN Some(PatchValue.rating) ELSE None,
     review_title |-> IF "review_title" \in m THEN Some(PatchValue.review_title) ELSE None,
     review_text |-> IF "review_text" \in m THEN Some(PatchValue.review_text) ELSE None,
     created_at |-> IF "created_at" \in m THEN Some(PatchValue.created_at) ELSE None,
     sentiment |-> Some("positive"), sentiment_score |-> Some(99)]

\* The bodies tried: none or one field supplied, title and text together, all.
PatchBodies ==
    {PatchBody(m) : m \in {{}} \cup {{f} : f \in PatchFields}
                           \cup {{"review_title", "review_text"}, PatchFields}}

\* class ReviewUpdate: the declared fields of a body, each Optional.
ReviewUpdate(b) ==
    [product_id |-> b.product_id, product_name |-> b.product_name,
     rating |-> b.rating, review_title |-> b.review_title,
     review_text |-> b.review_text, created_at |-> b.created_at]

\* create_review: the document built from a ReviewIn.
review_doc(review) ==
    LET title == clean_text(IF review.review_title # None THEN review.review_title[1] ELSE <<>>)
        text == clean_text(review.review_text)
        s == compute_sentiment(title_text(title, text))
    IN  [review_id |-> review.review_id,
         product_id |-> review.product_id,
         product_name |-> review.product_name,
         rating |-> review.rating,
         review_title |-> title,
         review_text |-> text,
         created_at |-> isoformat(review.created_at),
         sentiment |-> s.label,
         sentiment_score |-> s.score]

\* bulk_ingest.actions(): one index action per submitted review, in order.
bulk_action(r) ==
    LET title == clean_text(IF r.review_title # None THEN r.review_title[1] ELSE <<>>)
        text == clean_text(r.review_text)
        s == compute_sentiment(title_text(title, text))
    IN  [_id |-> r.review_id,
         _source |->
            [review_id |-> r.review_id,
             product_id |-> r.product_id,
             product_name |-> r.product_name,
             rating |-> r.rating,
             review_title |-> title,
             review_text |-> text,
             created_at |-> isoformat(r.created_at),
             sentiment |-> s.label,
             sentiment_score |-> s.score]]

\* update_review without the recomputation: the sentiment fields are those of
\* the fetched document.
apply_patch_stale_sentiment(existing, patch, review_id) ==
    [review_id |-> review_id,
     product_id |-> IF patch.product_id # None
                    THEN patch.product_id[1] ELSE existing.product_id,
     product_name |-> IF patch.product_name # None
                      THEN patch.product_name[1] ELSE existing.product_name,
     rating |-> IF patch.rating # None THEN patch.rating[1] ELSE existing.rating,
     review_title |-> IF patch.review_title # None
                      THEN clean_text(patch.review_title[1]) ELSE existing.review_title,
     review_text |-> IF patch.review_text # None
                     THEN clean_text(patch.review_text[1]) ELSE existing.review_text,
     created_at |-> IF patch.created_at # None
                    THEN isoformat(patch.created_at[1]) ELSE existing.created_at,
     sentiment |-> existing.sentiment,
     sentiment_score |-> existing.sentiment_score]

\* update_review building the document from the patch alone: an omitted
\* product_name becomes the model's default, the empty string.
apply_patch_drops_omitted(existing, patch, review_id) ==
    LET title == IF patch.review_title # None
                 THEN clean_text(patch.review_title[1]) ELSE existing.review_title
        text == IF patch.review_text # None
                THEN clean_text(patch.review_text[1]) ELSE existing.review_text
        s == compute_sentiment(title_text(title, text))
    IN  [review_id |-> review_id,
         product_id |-> IF patch.product_id # None
                        THEN patch.product_id[1] ELSE existing.product_id,
         product_name |-> IF patch.product_name # None
                          THEN patch.product_name[1] ELSE "",
         rating |-> IF patch.rating # None THEN patch.rating[1] ELSE existing.rating,
         review_title |-> title,
         review_text |-> text,
         created_at |-> IF patch.created_at # None
                        THEN isoformat(patch.created_at[1]) ELSE existing.created_at,
         sentiment |-> s.label,
         sentiment_score |-> s.score]

\* update_review: the patch applied to a copy of the fetched document, the
\* sentiment recomputed from the resulting title and text, review_id set to
\* the id of the path.
apply_patch(existing, patch, review_id) ==
    LET title == IF patch.review_title # None
                 THEN clean_text(patch.review_title[1]) ELSE existing.review_title
        text == IF patch.review_text # None
                THEN clean_text(patch.review_text[1]) ELSE existing.review_text
        s == compute_sentiment(title_text(title, text))
    IN  [review_id |-> review_id,
         product_id |-> IF patch.product_id # None
                        THEN patch.product_id[1] ELSE existing.product_id,
         product_name |-> IF patch.product_name # None
                          THEN patch.product_name[1] ELSE existing.product_name,
         rating |-> IF patch.rating # None THEN patch.rating[1] ELSE existing.rating,
         review_title |-> title,
         review_text |-> text,
         created_at |-> IF patch.created_at # None
                        THEN isoformat(patch.created_at[1]) ELSE existing.created_at,
         sentiment |-> s.label,
         sentiment_score |-> s.score]

\* ReviewOut(**{**doc, "created_at": <datetime>})
ReviewOut(doc, dt) == [doc EXCEPT !.created_at = dt]

(***************************************************************************)
(* The Elasticsearch index: a set of hits [_id, _source]                   *)
(***************************************************************************)

Hits(st, id) == {h \in st : h._id = id}

\* An index call that stores the document beside any already stored under id.
es_index_append(st, id, doc) == st \cup {[_id |-> id, _source |-> doc]}

\* es.index(index, id, document): the document stored under id replaces any
\* stored under the same id.
es_index(st, id, doc) == {h \in st : h._id # id} \cup {[_id |-> id, _source |-> doc]}

\* es.get(index, id): None stands for NotFoundError, raised too when the index
\* itself is missing.
es_get(exists, st, id) ==
    IF exists /\ Hits(st, id) # {}
    THEN Some((CHOOSE h \in Hits(st, id) : TRUE)._source)
    ELSE None

\* A delete call that acknowledges and removes nothing.
es_delete_noop(st, id) == st

\* es.delete(index, id): the store without the document.
es_delete(st, id) == {h \in st : h._id # id}

\* One batch of helpers.bulk: its index actions applied in order.
RECURSIVE es_bulk(_, _)
es_bulk(st, acts) ==
    IF acts = <<>> THEN st
    ELSE es_bulk(es_index(st, Head(acts)._id, Head(acts)._source), Tail(acts))

\* ensure_index_exists never raising.
ensure_index_exists_skipped(exists) == None

\* ensure_index_exists: None, or the HTTPException it raises.
ensure_index_exists(exists) ==
    IF ~exists
    THEN Some([status |-> 400, detail |-> "index does not exist"])
    ELSE None

(***************************************************************************)
(* Responses                                                               *)
(***************************************************************************)

\* resp describes the step just taken: the handler, its endpoint, the id of
\* the path, the HTTP status (0 while the handler has not returned yet), the
\* response body, what the step worked on (the body of a create, the patch
\* and the fetched document of an update, the batch of a bulk step) and the
\* document-level engine calls the step made.
Response(p, op, id, status, body, input, calls) ==
    [by |-> p, op |-> op, id |-> id, status |-> status, body |-> body,
     input |-> input, calls |-> calls]

NoResponse == Response("none", "none", "", 0, <<>>, <<>>, {})

Idle == [op |-> "idle"]

\* A handler takes a new request.  The handlers are interchangeable, so a
\* request that finds both free is given to h1.
Begin(p) ==
    /\ pc[p] = "idle"
    /\ nreq < MaxRequests
    /\ p = "h1" \/ pc["h1"] # "idle"

(***************************************************************************)
(* POST /admin/index/create                                                *)
(***************************************************************************)

\* es.indices.exists, and the early return when the index is there.
CreateIndexCheck(p) ==
    /\ Begin(p)
    /\ nreq' = nreq + 1
    /\ IF indexExists
       THEN /\ resp' = Response(p, "create_index", "", 200,
                                [created |-> FALSE, message |-> "already exists"], <<>>, {})
            /\ pc' = pc
       ELSE /\ resp' = Response(p, "create_index", "", 0, <<>>, <<>>, {})
            /\ pc' = [pc EXCEPT ![p] = "create_index"]
    /\ UNCHANGED <<indexExists, store, searchable, local, deleted, arg, ret>>

\* es.indices.create: BadRequestError (resource_already_exists_exception) when
\* another request created the index since the check.
CreateIndexCreate(p) ==
    /\ pc[p] = "create_index"
    /\ pc' = [pc EXCEPT ![p] = "idle"]
    /\ IF indexExists
       THEN /\ resp' = Response(p, "create_index", "", 400,
                                [detail |-> "resource_already_exists_exception"], <<>>, {})
            /\ UNCHANGED indexExists
       ELSE /\ indexExists' = TRUE
            /\ resp' = Response(p, "create_index", "", 200, [created |-> TRUE], <<>>, {})
    /\ UNCHANGED <<store, searchable, local, nreq, deleted, arg, ret>>

(***************************************************************************)
(* POST /reviews                                                           *)
(***************************************************************************)

\* The document create_review builds from each request body.
created_doc == [b \in ReviewBodies |-> review_doc(ReviewIn(b))]

\* An index request to a missing index creates it (action.auto_create_index).
CreateReview(p, b) ==
    /\ Begin(p)
    /\ nreq' = nreq + 1
    /\ LET review == ReviewIn(b)
           err == ensure_index_exists(indexExists)
           doc == created_doc[b]
       IN  IF err # None
           THEN /\ resp' = Response(p, "create", review.review_id, err[1].status,
                                    [detail |-> err[1].detail], b, {})
                /\ UNCHANGED <<indexExists, store, searchable, deleted>>
           ELSE /\ store' = es_index(store, review.review_id, doc)
                /\ searchable' = store'
                /\ indexExists' = TRUE
                /\ deleted' = deleted \ {review.review_id}
                /\ resp' = Response(p, "create", review.review_id, 200,
                                    ReviewOut(doc, review.created_at), b, {"index"})
    /\ UNCHANGED <<pc, local, arg, ret>>

(***************************************************************************)
(* GET /reviews/{review_id}                                                *)
(***************************************************************************)

\* get_review: the response, and the engine calls made.
get_review(exists, st, review_id) ==
    LET err == ensure_index_exists(exists)
        res == es_get(exists, st, review_id)
    IN  IF err # None
        THEN [status |-> err[1].status, body |-> [detail |-> err[1].detail], calls |-> {}]
        ELSE IF res = None
             THEN [status |-> 404, body |-> [detail |-> "Review not found"],
                   calls |-> {"get"}]
             ELSE [status |-> 200,
                   body |-> ReviewOut(res[1], fromisoformat(res[1].created_at)),
                   calls |-> {"get"}]

GetReview(p, review_id) ==
    /\ Begin(p)
    /\ nreq' = nreq + 1
    /\ LET r == get_review(indexExists, store, review_id)
       IN  resp' = Response(p, "get", review_id, r.status, r.body, <<>>, r.calls)
    /\ UNCHANGED <<indexExists, store, searchable, pc, local, deleted, arg, ret>>

(***************************************************************************)
(* PUT /reviews/{review_id}                                                *)
(***************************************************************************)

\* The index check and es.get: the document as it is now, kept by the handler.
UpdateRead(p, review_id, b) ==
    /\ Begin(p)
    /\ nreq' = nreq + 1
    /\ LET patch == ReviewUpdate(b)
           err == ensure_index_exists(indexExists)
           res == es_get(indexExists, store, review_id)
       IN  IF err # None
           THEN /\ resp' = Response(p, "update", review_id, err[1].status,
                                    [detail |-> err[1].detail], b, {})
                /\ UNCHANGED <<pc, local>>
           ELSE IF res = None
                THEN /\ resp' = Response(p, "update", review_id, 404,
                                         [detail |-> "Review not found"], b, {"get"})
                     /\ UNCHANGED <<pc, local>>
                ELSE /\ resp' = Response(p, "update", review_id, 0, <<>>, b, {"get"})
                     /\ pc' = [pc EXCEPT ![p] = "update_write"]
                     /\ local' = [local EXCEPT ![p] =
                                    [op |-> "update", review_id |-> review_id,
                                     patch |-> patch, existing |-> res[1]]]
    /\ UNCHANGED <<indexExists, store, searchable, deleted, arg, ret>>

\* The merge, the recomputed sentiment and es.index(..., refresh=True).
UpdateWrite(p) ==
    /\ pc[p] = "update_write"
    /\ LET review_id == local[p].review_id
           updated == apply_patch(local[p].existing, local[p].patch, review_id)
       IN  /\ store' = es_index(store, review_id, updated)
           /\ searchable' = store'
           /\ indexExists' = TRUE
           /\ resp' = Response(p, "update", review_id, 200,
                               ReviewOut(updated, fromisoformat(updated.created_at)),
                               [patch |-> local[p].patch, existing |-> local[p].existing],
                               {"index"})
    /\ pc' = [pc EXCEPT ![p] = "idle"]
    /\ local' = [local EXCEPT ![p] = Idle]
    /\ UNCHANGED <<nreq, deleted, arg, ret>>

(***************************************************************************)
(* DELETE /reviews/{review_id}                                             *)
(***************************************************************************)

\* delete_review answering a generic failure for an unknown id.
delete_review_generic_failure(exists, st, review_id) ==
    LET err == ensure_index_exists(exists)
        res == es_get(exists, st, review_id)
    IN  IF err # None
        THEN [status |-> err[1].status, body |-> [detail |-> err[1].detail],
              calls |-> {}, store |-> st]
        ELSE IF res = None
             THEN [status |-> 500, body |-> [detail |-> "NotFoundError"],
                   calls |-> {"delete"}, store |-> st]
             ELSE [status |-> 200, body |-> [deleted |-> TRUE, review_id |-> review_id],
                   calls |-> {"delete"}, store |-> es_delete(st, review_id)]

\* delete_review: the response, the engine calls made and the store after
\* es.delete(..., refresh=True), which raises NotFoundError for an unknown id.
delete_review(exists, st, review_id) ==
    LET err == ensure_index_exists(exists)
        res == es_get(exists, st, review_id)
    IN  IF err # None
        THEN [status |-> err[1].status, body |-> [detail |-> err[1].detail],
              calls |-> {}, store |-> st]
        ELSE IF res = None
             THEN [status |-> 404, body |-> [detail |-> "Review not found"],
                   calls |-> {"delete"}, store |-> st]
             ELSE [status |-> 200, body |-> [deleted |-> TRUE, review_id |-> review_id],
                   calls |-> {"delete"}, store |-> es_delete(st, review_id)]

DeleteReview(p, review_id) ==
    /\ Begin(p)
    /\ nreq' = nreq + 1
    /\ LET r == delete_review(indexExists, store, review_id)
       IN  /\ resp' = Response(p, "delete", review_id, r.status, r.body, <<>>, r.calls)
           /\ store' = r.store
           /\ searchable' = IF r.status = 200 THEN r.store ELSE searchable
           /\ deleted' = IF r.status = 200 THEN deleted \cup {review_id} ELSE deleted
    /\ UNCHANGED <<indexExists, pc, local, arg, ret>>

(***************************************************************************)
(* POST /reviews/bulk                                                      *)
(***************************************************************************)

\* The submissions: the runs of at most MaxBulk consecutive bodies of
\* BulkMaster, the empty one included.  r1 occurs twice in a row, so that one
\* batch can carry two actions for the same id.
BulkMaster == <<BodyA("r1"), BodyB("r1"), BodyB("r2"), BodyA("r2")>>

BulkBodies ==
    {SubSeq(BulkMaster, w[1], w[1] + w[2] - 1) :
        w \in {x \in (1..Len(BulkMaster)) \X (0..MaxBulk) :
                  x[1] + x[2] - 1 <= Len(BulkMaster)}}

RECURSIVE actions(_)
actions(reviews) ==
    IF reviews = <<>> THEN <<>>
    ELSE <<bulk_action(Head(reviews))>> \o actions(Tail(reviews))

\* The actions the generator yields for each request body.
bulk_actions == [bs \in BulkBodies |-> actions([i \in DOMAIN bs |-> ReviewIn(bs[i])])]

\* The index check; helpers.bulk then consumes actions() batch by batch.  The
\* generator is a function of the request alone, so its actions are kept whole.
BulkStart(p, bs) ==
    /\ Begin(p)
    /\ nreq' = nreq + 1
    /\ LET err == ensure_index_exists(indexExists)
       IN  IF err # None
           THEN /\ resp' = Response(p, "bulk", "", err[1].status,
                                    [detail |-> err[1].detail], <<>>, {})
                /\ UNCHANGED <<pc, local>>
           ELSE /\ resp' = Response(p, "bulk", "", 0, <<>>, <<>>, {})
                /\ pc' = [pc EXCEPT ![p] = "bulk"]
                /\ local' = [local EXCEPT ![p] =
                               [op |-> "bulk",
                                actions |-> bulk_actions[bs],
                                pos |-> 0]]
    /\ UNCHANGED <<indexExists, store, searchable, deleted, arg, ret>>

\* The next batch: at most ChunkSize actions from position pos on.
Chunk(acts, pos) ==
    SubSeq(acts, pos + 1, IF pos + ChunkSize < Len(acts) THEN pos + ChunkSize ELSE Len(acts))

RECURSIVE Keep(_, _, _)
Keep(acts, i, failed) ==
    IF i > Len(acts) THEN <<>>
    ELSE (IF i \in failed THEN <<>> ELSE <<acts[i]>>) \o Keep(acts, i + 1, failed)

ActionIds(acts) == {acts[i]._id : i \in DOMAIN acts}

\* What a batch step did, kept with its response: the actions the engine
\* stored in this batch, the number stored by the request so far, and the
\* number submitted in all.
Batch(kept, l) ==
    [kept |-> kept, stored |-> l.pos + Len(kept), total |-> Len(l.actions)]

\* A batch the engine stores whole: helpers.bulk goes on to the next one.
BulkChunkOk(p) ==
    /\ pc[p] = "bulk"
    /\ local[p].pos < Len(local[p].actions)
    /\ LET chunk == Chunk(local[p].actions, local[p].pos)
       IN  /\ store' = es_bulk(store, chunk)
           /\ deleted' = deleted \ ActionIds(chunk)
           /\ local' = [local EXCEPT ![p].pos = @ + Len(chunk)]
    /\ indexExists' = TRUE
    /\ resp' = Response(p, "bulk", "", 0, <<>>,
                        Batch(Chunk(local[p].actions, local[p].pos), local[p]), {"bulk"})
    /\ UNCHANGED <<searchable, pc, nreq, arg, ret>>

\* bulk_ingest's except clause: HTTPException(500, detail=str(e)).  str(e) is
\* "<n> document(s) failed to index." for a BulkIndexError and the transport
\* error's text otherwise.
bulk_failure(error, failed) ==
    [status |-> 500, body |-> [detail |-> [error |-> error, failed |-> failed]]]

\* A batch in which the engine rejects the items `failed` and stores the
\* others: helpers.bulk raises BulkIndexError and submits no further batch.
BulkChunkItemErrors(p) ==
    /\ pc[p] = "bulk"
    /\ local[p].pos < Len(local[p].actions)
    /\ LET chunk == Chunk(local[p].actions, local[p].pos)
       IN  \E failed \in SUBSET DOMAIN chunk :
            /\ failed # {}
            /\ LET kept == Keep(chunk, 1, failed)
                   r == bulk_failure("BulkIndexError", Some(Cardinality(failed)))
               IN  /\ store' = es_bulk(store, kept)
                   /\ deleted' = deleted \ ActionIds(kept)
                   /\ resp' = Response(p, "bulk", "", r.status, r.body,
                                       Batch(kept, local[p]), {"bulk"})
    /\ indexExists' = TRUE
    /\ pc' = [pc EXCEPT ![p] = "idle"]
    /\ local' = [local EXCEPT ![p] = Idle]
    /\ UNCHANGED <<searchable, nreq, arg, ret>>

\* A batch whose request fails in transport: the engine stored the batch
\* (the response timed out) or did not (the connection was refused);
\* helpers.bulk raises the transport error and submits no further batch.
BulkChunkTransportError(p) ==
    /\ pc[p] = "bulk"
    /\ local[p].pos < Len(local[p].actions)
    /\ \E applied \in BOOLEAN :
        LET kept == IF applied THEN Chunk(local[p].actions, local[p].pos) ELSE <<>>
            r == bulk_failure("TransportError", None)
        IN  /\ store' = es_bulk(store, kept)
            /\ deleted' = deleted \ ActionIds(kept)
            /\ resp' = Response(p, "bulk", "", r.status, r.body,
                                Batch(kept, local[p]), {"bulk"})
    /\ pc' = [pc EXCEPT ![p] = "idle"]
    /\ local' = [local EXCEPT ![p] = Idle]
    /\ UNCHANGED <<indexExists, searchable, nreq, arg, ret>>

\* All batches stored: es.indices.refresh and the success response.
BulkFinish(p) ==
    /\ pc[p] = "bulk"
    /\ local[p].pos = Len(local[p].actions)
    /\ searchable' = store
    /\ resp' = Response(p, "bulk", "", 200, [ingested |-> Len(local[p].actions)],
                        <<>>, {})
    /\ pc' = [pc EXCEPT ![p] = "idle"]
    /\ local' = [local EXCEPT ![p] = Idle]
    /\ UNCHANGED <<indexExists, store, nreq, deleted, arg, ret>>

(***************************************************************************)
(* GET /search, GET /analytics/summary, GET /analytics/trends              *)
(***************************************************************************)

\* Query parameters of the three endpoints; page and size are the defaults.
QueryParams ==
    {[q |-> Some(<<"g", "o", "o", "d">>), productId |-> Some("p1"),
      minRating |-> Some(3), maxRating |-> None,
      sentiment |-> None, dateFrom |-> Some(D1), dateTo |-> None,
      sort |-> "newest", page |-> 1, size |-> 10, interval |-> "month"]}

\* search_reviews: the body sent to es.search.
search_body(a) ==
    LET filters == build_filters(a.productId, a.sentiment, a.minRating, a.maxRating,
                                 a.dateFrom, a.dateTo)
    IN  [query |-> build_query(a.q, filters),
         from |-> (a.page - 1) * a.size,
         size |-> a.size,
         sort |-> build_sort(a.sort)]

\* analytics_summary and analytics_trends: the sentiment filter is not applied.
analytics_query(a) ==
    build_query(a.q, build_filters(a.productId, None, a.minRating, a.maxRating,
                                   a.dateFrom, a.dateTo))

RECURSIVE SumRating(_)
SumRating(hs) ==
    IF hs = {} THEN 0
    ELSE LET h == CHOOSE x \in hs : TRUE IN h._source.rating + SumRating(hs \ {h})

\* The engine's matching and ranking are not modelled: es.search answers with
\* some set `matched` of the documents visible since the last refresh.  The
\* average is kept as <<sum, count>>, null over no document.
SearchReviews(p, a) ==
    /\ Begin(p)
    /\ nreq' = nreq + 1
    /\ LET err == ensure_index_exists(indexExists)
       IN  IF err # None
           THEN resp' = Response(p, "search", "", err[1].status,
                                 [detail |-> err[1].detail], <<>>, {})
           ELSE \E matched \in SUBSET searchable :
                   resp' = Response(p, "search", "", 200,
                                    [page |-> a.page, size |-> a.size,
                                     total |-> Cardinality(matched),
                                     items |-> {h._source : h \in matched},
                                     request |-> search_body(a)],
                                    <<>>, {"search"})
    /\ UNCHANGED <<indexExists, store, searchable, pc, local, deleted, arg, ret>>

AnalyticsSummary(p, a) ==
    /\ Begin(p)
    /\ nreq' = nreq + 1
    /\ LET err == ensure_index_exists(indexExists)
       IN  IF err # None
           THEN resp' = Response(p, "summary", "", err[1].status,
                                 [detail |-> err[1].detail], <<>>, {})
           ELSE \E matched \in SUBSET searchable :
                   resp' = Response(p, "summary", "", 200,
                                    [total_reviews |-> Cardinality(matched),
                                     avg_rating |-> IF matched = {} THEN None
                                                    ELSE Some(<<SumRating(matched),
                                                                Cardinality(matched)>>),
                                     sentiment_counts |->
                                        [l \in {h._source.sentiment : h \in matched} |->
                                            Cardinality({h \in matched :
                                                            h._source.sentiment = l})],
                                     request |-> analytics_query(a)],
                                    <<>>, {"search"})
    /\ UNCHANGED <<indexExists, store, searchable, pc, local, deleted, arg, ret>>

\* The buckets are the engine's; each modelled timestamp falls in a month, a
\* week and a day of its own, so a bucket is named by its document's date.
AnalyticsTrends(p, a) ==
    /\ Begin(p)
    /\ nreq' = nreq + 1
    /\ LET err == ensure_index_exists(indexExists)
       IN  IF err # None
           THEN resp' = Response(p, "trends", "", err[1].status,
                                 [detail |-> err[1].detail], <<>>, {})
           ELSE \E matched \in SUBSET searchable :
                   resp' = Response(p, "trends", "", 200,
                                    [interval |-> a.interval,
                                     items |-> {[date |-> h._source.created_at[1],
                                                 doc_count |-> 1,
                                                 avg_rating |-> h._source.rating] :
                                                    h \in matched},
                                     request |-> analytics_query(a)],
                                    <<>>, {"search"})
    /\ UNCHANGED <<indexExists, store, searchable, pc, local, deleted, arg, ret>>

\* The engine's periodic refresh (index.refresh_interval) makes the writes of
\* the batches searchable.
EngineRefresh ==
    /\ searchable # store
    /\ searchable' = store
    /\ resp' = NoResponse
    /\ UNCHANGED <<indexExists, store, pc, local, nreq, deleted, arg, ret>>

(***************************************************************************)
(* The service                                                             *)
(***************************************************************************)

\* The stores the service starts over: no index yet, or the index with the
\* documents of earlier POST /reviews requests.
Seeds ==
    {{},
     es_index({}, "r1", review_doc(ReviewIn(BodyA("r1")))),
     es_index(es_index({}, "r1", review_doc(ReviewIn(BodyA("r1")))),
              "r2", review_doc(ReviewIn(BodyB("r2"))))}

Init ==
    /\ indexExists \in BOOLEAN
    /\ store \in (IF indexExists THEN Seeds ELSE {{}})
    /\ searchable = store
    /\ pc = [p \in Procs |-> "idle"]
    /\ local = [p \in Procs |-> Idle]
    /\ resp = NoResponse
    /\ nreq = 0
    /\ deleted = {}
    /\ arg = <<>>
    /\ ret = <<>>

Next ==
    \/ \E p \in Procs : CreateIndexCheck(p)
    \/ \E p \in Procs : CreateIndexCreate(p)
    \/ \E p \in Procs, b \in ReviewBodies : CreateReview(p, b)
    \/ \E p \in Procs, id \in Ids : GetReview(p, id)
    \/ \E p \in Procs, id \in Ids, b \in PatchBodies : UpdateRead(p, id, b)
    \/ \E p \in Procs : UpdateWrite(p)
    \/ \E p \in Procs, id \in Ids : DeleteReview(p, id)
    \/ \E p \in Procs, bs \in BulkBodies : BulkStart(p, bs)
    \/ \E p \in Procs : BulkChunkOk(p)
    \/ \E p \in Procs : BulkChunkItemErrors(p)
    \/ \E p \in Procs : BulkChunkTransportError(p)
    \/ \E p \in Procs : BulkFinish(p)
    \/ \E p \in Procs, a \in QueryParams : SearchReviews(p, a)
    \/ \E p \in Procs, a \in QueryParams : AnalyticsSummary(p, a)
    \/ \E p \in Procs, a \in QueryParams : AnalyticsTrends(p, a)
    \/ EngineRefresh

Spec == Init /\ [][Next]_vars

(***************************************************************************)
(* The pure functions on their own: clean_text applied twice, and           *)
(* build_filters followed by build_query                                   *)
(***************************************************************************)

\* Bounds: the pieces of a text to normalise, the characters of a query text.
MaxTokens == 4
MaxQLen == 3

\* The pieces texts are made of: entity names, their delimiters, angle
\* brackets, a space and a letter.
Tokens ==
    <<<<"&">>, <<"a", "m", "p">>, <<"l", "t">>, <<"g", "t">>, <<";">>,
      <<"<">>, <<">">>, <<" ">>, <<"b">>>>

RECURSIVE Flatten(_)
Flatten(ts) == IF ts = <<>> THEN <<>> ELSE Tokens[Head(ts)] \o Flatten(Tail(ts))

CleanInputs ==
    {Flatten(ts) : ts \in UNION {[1..n -> DOMAIN Tokens] : n \in 0..MaxTokens}}

Quiet ==
    /\ indexExists = FALSE
    /\ store = {}
    /\ searchable = {}
    /\ pc = [p \in Procs |-> "idle"]
    /\ local = [p \in Procs |-> Idle]
    /\ resp = NoResponse
    /\ nreq = 0
    /\ deleted = {}

InitClean ==
    /\ Quiet
    /\ arg \in CleanInputs
    /\ ret = <<>>

\* clean_text applied to the text, then to its own result.
CleanOnce ==
    /\ Len(ret) < 2
    /\ ret' = Append(ret, clean_text(IF ret = <<>> THEN arg ELSE ret[Len(ret)]))
    /\ UNCHANGED <<indexExists, store, searchable, pc, local, resp, nreq, deleted, arg>>

NextClean == CleanOnce

SpecClean == InitClean /\ [][NextClean]_vars

\* Query texts: absent, or any text of spaces and letters.
QueryTexts ==
    {None} \cup {Some(t) : t \in UNION {[1..n -> {" ", "a"}] : n \in 0..MaxQLen}}

\* The parameters GET /search accepts: productId may be the empty string;
\* sentiment and the ratings are validated before the handler runs.
InitQuery ==
    /\ Quiet
    /\ arg \in [product_id : {None, Some(""), Some("p1")},
                sentiment : {None, Some("positive"), Some("neutral")},
                min_rating : {None, Some(1), Some(3)},
                max_rating : {None, Some(5)},
                date_from : {None, Some(D1)},
                date_to : {None, Some(D2)},
                q : QueryTexts]
    /\ ret = <<>>

BuildFilters ==
    /\ ret = <<>>
    /\ ret' = <<build_filters(arg.product_id, arg.sentiment, arg.min_rating,
                              arg.max_rating, arg.date_from, arg.date_to)>>
    /\ UNCHANGED <<indexExists, store, searchable, pc, local, resp, nreq, deleted, arg>>

BuildQuery ==
    /\ Len(ret) = 1
    /\ ret' = Append(ret, build_query(arg.q, ret[1]))
    /\ UNCHANGED <<indexExists, store, searchable, pc, local, resp, nreq, deleted, arg>>

NextQuery == BuildFilters \/ BuildQuery

SpecQuery == InitQuery /\ [][NextQuery]_vars

\* The compound scores of the scorer: [-1.0, 1.0], in hundredths.
Scores == -100..100

InitSentiment ==
    /\ Quiet
    /\ arg \in Scores
    /\ ret = <<>>

\* The service's classification of the score.
ClassifyService ==
    /\ ret = <<>>
    /\ ret' = <<sentiment_of_score(arg)>>
    /\ UNCHANGED <<indexExists, store, searchable, pc, local, resp, nreq, deleted, arg>>

\* The loader's classification of the same score.
ClassifyLoader ==
    /\ Len(ret) = 1
    /\ ret' = Append(ret, sentiment_label_of_score(arg))
    /\ UNCHANGED <<indexExists, store, searchable, pc, local, resp, nreq, deleted, arg>>

NextSentiment == ClassifyService \/ ClassifyLoader

SpecSentiment == InitSentiment /\ [][NextSentiment]_vars

(***************************************************************************)
(* Properties                                                              *)
(***************************************************************************)

\* The document stored under id (there is one).
Stored(id) == (CHOOSE h \in Hits(store, id) : TRUE)._source

\* classify(trim(title + " " + text)) of a stored document.
Derived(d) == compute_sentiment(title_text(d.review_title, d.review_text))

\* C1: every stored document's sentiment and sentiment_score are those
\* derived from its own stored title and text, whatever requests ran and
\* however they interleaved and whatever sentiment the request bodies carried;
\* and an update that supplies neither title nor text stores the sentiment and
\* score of the document it fetched.
SentimentNeverStale ==
    /\ \A h \in store :
        /\ h._source.sentiment = Derived(h._source).label
        /\ h._source.sentiment_score = Derived(h._source).score
    /\ (resp.op = "update" /\ resp.status = 200
        /\ resp.input.patch.review_title = None /\ resp.input.patch.review_text = None)
       => /\ Stored(resp.id).sentiment = resp.input.existing.sentiment
          /\ Stored(resp.id).sentiment_score = resp.input.existing.sentiment_score

\* C1 witness: an update of the rating alone has just answered, over a
\* document whose body had claimed "positive": the stored label is the
\* derived "negative".
SentimentNeverStaleWitness ==
    /\ resp.op = "update" /\ resp.status = 200
    /\ resp.input.patch.rating # None
    /\ resp.input.patch.review_title = None /\ resp.input.patch.review_text = None
    /\ Stored(resp.id).sentiment = "negative"
    /\ Stored(resp.id).rating = 3

\* The stored value a patch gives a field it supplies.
Supplied(patch, f) ==
    CASE f \in {"review_title", "review_text"} -> clean_text(patch[f][1])
      [] f = "created_at" -> isoformat(patch[f][1])
      [] OTHER -> patch[f][1]

\* C2: a successful partial update stores, for every field the patch omits,
\* the value of the document it fetched, for every field it supplies the
\* supplied value, and the id of the path as review_id; the document it
\* fetched is the one stored under that id at the time.
UpdateChangesOnlySupplied ==
    /\ (resp.op = "update" /\ resp.status = 0)
       => /\ pc[resp.by] = "update_write"
          /\ Hits(store, resp.id) # {}
          /\ local[resp.by].existing = Stored(resp.id)
          /\ local[resp.by].existing.review_id = resp.id
    /\ (resp.op = "update" /\ resp.status = 200)
       => /\ Hits(store, resp.id) # {}
          /\ Stored(resp.id).review_id = resp.id
          /\ resp.body.review_id = resp.id
          /\ \A f \in PatchFields :
                IF resp.input.patch[f] = None
                THEN Stored(resp.id)[f] = resp.input.existing[f]
                ELSE Stored(resp.id)[f] = Supplied(resp.input.patch, f)

\* C2 witness: an update that supplied the product name alone has answered,
\* the name changed and the fetched rating and title kept.
UpdateChangesOnlySuppliedWitness ==
    /\ resp.op = "update" /\ resp.status = 200
    /\ resp.input.patch.product_name # None
    /\ resp.input.patch.rating = None
    /\ Stored(resp.id).product_name = "n3"
    /\ resp.input.existing.product_name = "n1"
    /\ Stored(resp.id).rating = 5
    /\ Stored(resp.id).review_title = <<"g", "o", "o", "d">>

DocFields ==
    {"review_id", "product_id", "product_name", "rating", "review_title",
     "review_text", "created_at", "sentiment", "sentiment_score"}

\* C3: the store holds at most one document per id, each under its own
\* review_id; after a create the document under the id is the submitted one in
\* every field, and after a batch the document under each id of the batch is
\* the last one the batch stored for that id.
UpsertById ==
    /\ \A h1, h2 \in store : h1._id = h2._id => h1 = h2
    /\ \A h \in store : h._source.review_id = h._id
    /\ (resp.op = "create" /\ resp.status = 200)
       => /\ Cardinality(Hits(store, resp.id)) = 1
          /\ DOMAIN Stored(resp.id) = DocFields
          /\ Stored(resp.id).review_id = resp.input.review_id
          /\ Stored(resp.id).product_id = resp.input.product_id
          /\ Stored(resp.id).product_name = resp.input.product_name
          /\ Stored(resp.id).rating = resp.input.rating
          /\ Stored(resp.id).review_title =
                clean_text(IF resp.input.review_title = None THEN <<>>
                           ELSE resp.input.review_title[1])
          /\ Stored(resp.id).review_text = clean_text(resp.input.review_text)
          /\ Stored(resp.id).created_at = isoformat(resp.input.created_at)
    /\ (resp.op = "bulk" /\ "bulk" \in resp.calls)
       => \A i \in DOMAIN resp.input.kept :
            (\A j \in DOMAIN resp.input.kept :
                j > i => resp.input.kept[j]._id # resp.input.kept[i]._id)
            => Hits(store, resp.input.kept[i]._id) =
                  {[_id |-> resp.input.kept[i]._id,
                    _source |-> resp.input.kept[i]._source]}

\* C3 witness: a create for r1, which the store already held with other
\* contents, has answered, and r2 is stored beside it.
UpsertByIdWitness ==
    /\ resp.op = "create" /\ resp.status = 200 /\ resp.id = "r1"
    /\ Stored("r1").product_id = "p2"
    /\ Hits(store, "r2") # {}
    /\ nreq = 1

\* C4: a fetch, an update or a delete that looks up an id the store does not
\* hold answers 404, changes nothing and leaves no write pending; and 404 is
\* answered only so.
NotFoundIsDistinct ==
    [][/\ ((resp'.op \in {"get", "delete"} \/ (resp'.op = "update" /\ pc[resp'.by] = "idle"))
           /\ indexExists /\ Hits(store, resp'.id) = {})
          => (resp'.status = 404 /\ store' = store /\ searchable' = searchable
              /\ pc' = pc /\ indexExists' = indexExists)
       /\ resp'.status = 404
          => (resp'.op \in {"get", "delete", "update"} /\ Hits(store, resp'.id) = {}
              /\ store' = store)]_vars

\* C4 witness: a delete of an unknown id has answered 404 beside a stored
\* document.
NotFoundIsDistinctWitness ==
    /\ resp.op = "delete" /\ resp.status = 404
    /\ Hits(store, resp.id) = {}
    /\ store # {}

\* C5: when a batch of a bulk ingestion fails, no further batch is submitted,
\* the request ends in a server-side failure that carries no ingested count
\* of a success, and the failure reports how many documents were stored and
\* how many were abandoned.
BulkFailureReportsCounts ==
    (resp.op = "bulk" /\ "bulk" \in resp.calls /\ resp.status # 0)
    => /\ pc[resp.by] = "idle"
       /\ resp.status = 500
       /\ "ingested" \notin DOMAIN resp.body
       /\ "ingested" \in DOMAIN resp.body.detail
       /\ "abandoned" \in DOMAIN resp.body.detail
       /\ resp.body.detail.ingested = resp.input.stored
       /\ resp.body.detail.abandoned = resp.input.total - resp.input.stored

\* C7: a review, search or analytics request that arrives while the index
\* does not exist is answered 400, makes no document-level engine call,
\* changes no document, starts nothing and does not create the index.
IndexNotReady ==
    [][(/\ resp'.op \in {"bulk", "create", "get", "update", "delete",
                         "search", "summary", "trends"}
        /\ ~indexExists)
       => /\ resp'.status = 400
          /\ resp'.calls = {}
          /\ store' = store
          /\ searchable' = searchable
          /\ pc' = pc
          /\ indexExists' = FALSE]_vars

\* C7 witness: a search has been rejected with 400 and there is still no index.
IndexNotReadyWitness ==
    /\ resp.op = "search" /\ resp.status = 400
    /\ ~indexExists
    /\ store = {}

\* C8 as claimed: an id whose delete succeeded, and for which no create or
\* bulk submission was made since, is absent from the store.
DeletedStaysDeleted ==
    \A x \in deleted : Hits(store, x) = {}

\* C8 as amended: a successful delete leaves its id absent; a fetch of an
\* absent id answers 404; and a deleted id comes back only by a create, by a
\* batch, or by the write of an update that fetched the document before the
\* delete.
DeletedUntilRewritten ==
    [][/\ (resp'.op = "delete" /\ resp'.status = 200)
          => (Hits(store', resp'.id) = {} /\ resp'.id \in deleted')
       /\ (resp'.op = "get" /\ resp'.id \in deleted /\ Hits(store, resp'.id) = {})
          => resp'.status = 404
       /\ \A x \in deleted :
            (Hits(store, x) = {} /\ Hits(store', x) # {})
            => \/ resp'.op \in {"create", "bulk"} /\ x \notin deleted'
               \/ /\ resp'.op = "update" /\ resp'.id = x
                  /\ pc[resp'.by] = "update_write"
                  /\ local[resp'.by].existing.review_id = x]_vars

\* C8 witness: a fetch of a deleted id has answered 404.
DeletedUntilRewrittenWitness ==
    /\ resp.op = "get" /\ resp.status = 404
    /\ resp.id \in deleted
    /\ Hits(store, resp.id) = {}

\* C6: clean_text applied to its own result returns it unchanged.
CleanTextIdempotent ==
    Len(ret) = 2 => ret[2] = ret[1]

\* The filter clause of a criterion.
IsTerm(c, field, v) ==
    /\ DOMAIN c = {"term"}
    /\ DOMAIN c.term = {field}
    /\ c.term[field] = v

IsRange(c, field, lo, hi) ==
    /\ DOMAIN c = {"range"}
    /\ DOMAIN c.range = {field}
    /\ "gte" \in DOMAIN c.range[field] <=> lo # None
    /\ "lte" \in DOMAIN c.range[field] <=> hi # None
    /\ lo # None => c.range[field].gte = lo[1]
    /\ hi # None => c.range[field].lte = hi[1]

Count(b) == IF b THEN 1 ELSE 0

\* One clause per criterion group, in the order product_id, sentiment, rating
\* range, created_at range, where hasP and hasS say whether the product and
\* sentiment criteria count as present.
OneClausePerGroup(f, a, hasP, hasS) ==
    LET hasR == a.min_rating # None \/ a.max_rating # None
        hasD == a.date_from # None \/ a.date_to # None
        iP == 1
        iS == Count(hasP) + 1
        iR == Count(hasP) + Count(hasS) + 1
        iD == Count(hasP) + Count(hasS) + Count(hasR) + 1
    IN  /\ Len(f) = Count(hasP) + Count(hasS) + Count(hasR) + Count(hasD)
        /\ hasP => IsTerm(f[iP], "product_id", a.product_id[1])
        /\ hasS => IsTerm(f[iS], "sentiment", a.sentiment[1])
        /\ hasR => IsRange(f[iR], "rating", a.min_rating, a.max_rating)
        /\ hasD => IsRange(f[iD], "created_at",
                           IF a.date_from = None THEN None
                           ELSE Some(<<a.date_from[1].date, "T", a.date_from[1].time,
                                       a.date_from[1].tz>>),
                           IF a.date_to = None THEN None
                           ELSE Some(<<a.date_to[1].date, "T", a.date_to[1].time,
                                       a.date_to[1].tz>>))

\* C9 as claimed: build_filters returns one clause per criterion that is
\* given (not None), in the fixed order, a range clause carrying exactly the
\* bounds given.
FiltersOnePerPresent ==
    Len(ret) >= 1
    => OneClausePerGroup(ret[1], arg, arg.product_id # None, arg.sentiment # None)

\* C9 as amended: the same, a product_id or sentiment that is the empty
\* string counting as absent.
FiltersOnePerNonEmpty ==
    Len(ret) >= 1
    => OneClausePerGroup(ret[1], arg,
                         arg.product_id # None /\ arg.product_id[1] # "",
                         arg.sentiment # None /\ arg.sentiment[1] # "")

\* C9 witness: min_rating=3 alone has given one range clause with gte 3 and
\* no upper bound.
FiltersOnePerNonEmptyWitness ==
    /\ Len(ret) >= 1
    /\ arg.product_id = None /\ arg.sentiment = None /\ arg.max_rating = None
    /\ arg.date_from = None /\ arg.date_to = None
    /\ arg.min_rating = Some(3)
    /\ Len(ret[1]) = 1
    /\ DOMAIN ret[1][1].range.rating = {"gte"}
    /\ ret[1][1].range.rating.gte = 3

\* A query text that is absent, empty or made of whitespace only.
Blank(q) == q = None \/ \A i \in DOMAIN q[1] : IsSpace(q[1][i])

\* C10: build_query gives the match-everything clause for a blank query text
\* and otherwise exactly one multi_match clause with operator "and" over
\* title, body and product name, carrying the text; in both cases the filter
\* list is attached unchanged as the filter part.
QueryBlankOrAllTerms ==
    Len(ret) = 2
    => /\ DOMAIN ret[2] = {"bool"}
       /\ DOMAIN ret[2].bool = {"must", "filter"}
       /\ ret[2].bool.filter = ret[1]
       /\ Len(ret[2].bool.must) = 1
       /\ IF Blank(arg.q)
          THEN ret[2].bool.must[1] = [match_all |-> <<>>]
          ELSE /\ DOMAIN ret[2].bool.must[1] = {"multi_match"}
               /\ ret[2].bool.must[1].multi_match.operator = "and"
               /\ ret[2].bool.must[1].multi_match.query = arg.q[1]
               /\ ret[2].bool.must[1].multi_match.fields =
                     <<"review_title^2", "review_text", "product_name^1.5">>

\* C10 witness: a query text of spaces only, with filters, has given the
\* match-everything clause and the filters.
QueryBlankOrAllTermsWitness ==
    /\ Len(ret) = 2
    /\ arg.q = Some(<<" ", " ">>)
    /\ Len(ret[1]) = 2
    /\ ret[2].bool.must = <<[match_all |-> <<>>]>>
    /\ ret[2].bool.filter = ret[1]

\* C11: for every score in [-1, 1] the classification gives exactly one of
\* the three labels: positive iff the score is at least 0.05, negative iff it
\* is at most -0.05, neutral otherwise; and it returns the score unchanged.
\* The service and the loader classify alike.
SentimentThresholdsInclusive ==
    \A i \in DOMAIN ret :
        /\ ret[i].label \in {"positive", "negative", "neutral"}
        /\ ret[i].label = "positive" <=> arg >= 5
        /\ ret[i].label = "negative" <=> arg <= -5
        /\ ret[i].label = "neutral" <=> (-5 < arg /\ arg < 5)
        /\ ret[i].score = arg
        /\ ret[i] = ret[1]

\* C11 witness: the score -0.05 has been classified negative by both.
SentimentThresholdsInclusiveWitness ==
    /\ arg = -5
    /\ Len(ret) = 2
    /\ ret[1] = [label |-> "negative", score |-> -5]
    /\ ret[2] = ret[1]

\* C12: every index-creation request that has answered has succeeded, with
\* created:true when it created the index and the no-op created:false when
\* the index was there already; none fails because the index already exists.
CreateIndexIdempotent ==
    [][(resp'.op = "create_index" /\ resp'.status # 0)
       => /\ resp'.status = 200
          /\ resp'.body.created = (~indexExists /\ indexExists')
          /\ indexExists']_vars

====
